---- MODULE Spec2Model ----
(***************************************************************************)
(* Model of the proof-of-work search of cracker/src/rust.rs:               *)
(* generate_valid_string (the coordinator) and                             *)
(* generate_valid_string_one_thread (the worker).                          *)
(*                                                                         *)
(* Strings are sequences of bytes.  u128 quantities that can leave the     *)
(* range of the model checker's integers (16^nb_zeros, 128^max_padding)    *)
(* are kept as NbLimbs limbs of LimbBits bits, least significant first,    *)
(* and powers are taken modulo 2^128 with the overflow reported, so that   *)
(* both builds of the crate are covered: with overflow checks the          *)
(* overflowing pow panics, without them it wraps.                          *)
(*                                                                         *)
(* sha1 is an arbitrary function of the message: a table fixed in Init     *)
(* gives the digest of a few marked messages, every other message has      *)
(* DefaultDigest.                                                          *)
(*                                                                         *)
(* A worker only touches memory shared with other threads when it stores   *)
(* or loads is_found; every other iteration of 'main_loop involves the     *)
(* thread alone and commutes with the steps of the other threads.  A step  *)
(* WorkerRun(t) is therefore one iteration that stores or loads is_found,  *)
(* followed by the iterations up to the next such iteration (or to the end *)
(* of the thread).  Those iterations do not depend on the other threads,   *)
(* so Spawn computes them once per thread (SoloRun) instead of once per    *)
(* interleaving.  A relaxed load that returns a stale false behaves as a   *)
(* load scheduled before the store, which the interleavings cover.         *)
(***************************************************************************)
EXTENDS Integers, Sequences, FiniteSets, TLC

\* ---------------------------------------------------------------- bounds
MaxThreads == 3
MaxDifficulty == 33
MaxSearchSpace == 16384
\* the polling interval of ScaledSpec
ScaledCheckEvery == 4096
\* the base strings and the suffixes whose digests the table of Init varies
Bases == {<<>>, <<97>>}
MarkedSuffixes == {<<1>>, <<127, 127>>, <<32, 1>>}

\* ------------------------------------------------------ program constants
BITS_IN_HEX == 4
check_every == 10000000
DigestLen == 20
U128Bits == 128
LimbBits == U128Bits \div 8
\* ln(16) and ln(7) in millionths, the two logarithms of the f64
\* computation of max_padding
LN16_MICRO == 2772589
LN7_MICRO == 1945910

LimbBase == 2^LimbBits
NbLimbs == U128Bits \div LimbBits

\* ------------------------------------------------------ u128 arithmetic
U128Zero == [k \in 1..NbLimbs |-> 0]

\* 2^n modulo 2^128
Pow2U128(n) ==
    [k \in 1..NbLimbs |-> IF k = (n \div LimbBits) + 1 THEN 2^(n % LimbBits) ELSE 0]

Log2(b) == CHOOSE s \in 0..LimbBits : 2^s = b

\* u128::pow for a base that is a power of two (the code raises 16 and
\* 128): the power modulo 2^128, and whether it overflowed
PowU128(b, e) ==
    [val |-> Pow2U128(Log2(b) * e), overflow |-> Log2(b) * e >= U128Bits]

GeqU128(a, b) ==
    \/ a = b
    \/ \E k \in 1..NbLimbs :
          /\ a[k] > b[k]
          /\ \A j \in (k + 1)..NbLimbs : a[j] = b[j]

IsSmallU128(x) == (\A k \in 3..NbLimbs : x[k] = 0) /\ x[2] < 2^(LimbBits - 2)
U128ToNat(x) == x[1] + x[2] * LimbBase

CeilDiv(a, b) == (a + b - 1) \div b

\* ------------------------------------------------- candidate space size
\* 16u128.pow(nb_zeros), the value the code takes the logarithm of
Pow16(d) == PowU128(16, d)

\* line 153: ((16^nb_zeros as f64).ln() / 7f64.ln()).ceil() as u32.
\* ln(16^d) = d * ln(16); a wrapped power is 0, ln(0) is -inf and the
\* cast of -inf to u32 saturates to 0.
MaxPaddingOf(d) ==
    IF Pow16(d).val = U128Zero THEN 0
    ELSE CeilDiv(d * LN16_MICRO, LN7_MICRO)

\* line 154: 128u128.pow(max_padding)
MaxValueOf(d) == PowU128(128, MaxPaddingOf(d))

Difficulties ==
    {d \in 0..MaxDifficulty :
        /\ IsSmallU128(MaxValueOf(d).val)
        /\ U128ToNat(MaxValueOf(d).val) <= MaxSearchSpace}


\* ------------------------------------------------------------ the state
VARIABLES
    base_string,      \* argument: the bytes of the base string
    nb_zeros,         \* argument: the difficulty
    nb_threads,       \* argument: the number of workers
    overflow_checks,  \* whether the build panics on integer overflow
    sha1_table,       \* the digests of the marked messages
    poll_every,       \* the polling interval: check_every, scaled in ScaledSpec
    pc_main,          \* "start", "running", "returned" or "panicked"
    max_padding,
    max_value,
    is_found,         \* the shared AtomicBool
    workers,          \* the spawned threads, by nb_thread
    spawned,          \* number of handles pushed
    joined,           \* number of handles joined
    output,           \* the coordinator's local `output`
    result            \* the value generate_valid_string returned

vars == <<base_string, nb_zeros, nb_threads, overflow_checks, sha1_table,
          poll_every, pc_main, max_padding, max_value, is_found, workers, spawned,
          joined, output, result>>

args == <<base_string, nb_zeros, nb_threads, overflow_checks, sha1_table, poll_every>>

None == [some |-> FALSE, val |-> <<>>]
Some(s) == [some |-> TRUE, val |-> s]

\* line 68: the digits that make the worker skip a candidate
Disallowed_WithoutSpace == {9, 10, 13}
Disallowed == {9, 10, 13, 32}

\* section 4.1: tab, newline, carriage return and space
DisallowedBytes == {9, 10, 13, 32}

\* ------------------------------------------------------- hash evaluator
DigestStartingWith(b) == [k \in 1..DigestLen |-> IF k = 1 THEN b ELSE 255]
DefaultDigest == DigestStartingWith(255)
ZeroDigest == [k \in 1..DigestLen |-> 0]
ZeroByteThenOne == [k \in 1..DigestLen |-> IF k = 1 THEN 0 ELSE IF k = 2 THEN 1 ELSE 255]
Digests == {DigestStartingWith(15), DigestStartingWith(31), ZeroDigest, ZeroByteThenOne}
\* the digests Init tries for a marked suffix; <<32, 1>> has a disallowed
\* digit and always gets a digest that would be accepted
DigestsFor(s) ==
    IF s = <<1>> THEN {DigestStartingWith(15), DigestStartingWith(31), ZeroDigest}
    ELSE IF s = <<127, 127>> THEN {DigestStartingWith(31), ZeroByteThenOne}
    ELSE {DigestStartingWith(15)}

sha1(message) ==
    IF message \in DOMAIN sha1_table THEN sha1_table[message] ELSE DefaultDigest

\* u8::leading_zeros
LeadingZerosU8_BitLength(n) == CHOOSE z \in 0..8 : n < 2^z /\ (z = 0 \/ n >= 2^(z - 1))
LeadingZerosU8(n) == CHOOSE z \in 0..8 : n < 2^(8 - z) /\ (z = 8 \/ n >= 2^(7 - z))

\* lines 84-93: the try_fold over the bytes of the digest
RECURSIVE FoldLeadingZeros(_, _, _)
FoldLeadingZeros(hash, k, acc) ==
    IF k > Len(hash) THEN acc
    ELSE IF hash[k] = 0 THEN FoldLeadingZeros(hash, k + 1, acc + 8)
    ELSE acc + LeadingZerosU8(hash[k])

CountLeadingZeros(hash) == FoldLeadingZeros(hash, 1, 0)

\* line 95
SuccessPredicate_WithoutBitsInHex(count_leading_zeros) == count_leading_zeros >= nb_zeros
SuccessPredicate(count_leading_zeros) == count_leading_zeros >= nb_zeros * BITS_IN_HEX

\* ------------------------------------------------------ candidate encoder
\* section 4.1 of the specification, on the integer itself: the base-128
\* digits of v, least significant first, a single 0 for v = 0
RECURSIVE EncodingOf(_)
EncodingOf(v) == IF v < 128 THEN <<v>> ELSE <<v % 128>> \o EncodingOf(v \div 128)

RECURSIVE HasDisallowedDigit(_)
HasDisallowedDigit(v) ==
    \/ v % 128 \in DisallowedBytes
    \/ v >= 128 /\ HasDisallowedDigit(v \div 128)

\* --------------------------------------------------------------- worker
\* line 75: `value >>= 7`
ShiftRight7_ByEight(value) == value \div 256
ShiftRight7(value) == value \div 128

\* lines 64-79: the inner loop that writes the 7-bit digits of value into
\* the buffer; "skip" is `continue 'main_loop`, "panic" the bounds check of
\* the indexed write
RECURSIVE EncodeLoop(_, _, _, _)
EncodeLoop(bytes, value, current_offset, nb_original_bytes) ==
    LET current_char == value % 128
    IN IF current_char \in Disallowed
       THEN [status |-> "skip", bytes |-> bytes, current_offset |-> current_offset]
       ELSE IF nb_original_bytes + current_offset >= Len(bytes)
       THEN [status |-> "panic", bytes |-> bytes, current_offset |-> current_offset]
       ELSE LET written == [bytes EXCEPT ![nb_original_bytes + current_offset + 1] = current_char]
            IN IF ShiftRight7(value) = 0
               THEN [status |-> "ok", bytes |-> written, current_offset |-> current_offset + 1]
               ELSE EncodeLoop(written, ShiftRight7(value), current_offset + 1,
                               nb_original_bytes)

\* line 82: the part of the buffer that holds the current candidate
MeaningfulBytes_WholeBuffer(bytes, nb_original_bytes, current_offset) == bytes
MeaningfulBytes(bytes, nb_original_bytes, current_offset) ==
    SubSeq(bytes, 1, nb_original_bytes + current_offset)

\* line 54: `for value in lower_limit..upper_limit`, the value after value
NextValue_SkipOne(value) == value + 2
NextValue(value) == value + 1

\* the integer whose base-128 digits, least significant first, are suffix
RECURSIVE Decode(_)
Decode(suffix) ==
    IF suffix = <<>> THEN 0 ELSE Head(suffix) + 128 * Decode(Tail(suffix))

\* no digit more than the integer needs: the most significant digit of a
\* suffix longer than one byte is not zero
Minimal(suffix) == Len(suffix) = 1 \/ (Len(suffix) > 1 /\ suffix[Len(suffix)] # 0)

\* the leading zero bits of a digest, bit by bit from the most significant
\* bit of the first byte
Bit(h, k) == (h[(k \div 8) + 1] \div 2^(7 - (k % 8))) % 2
LeadingZeroBits(h) ==
    CHOOSE n \in 0..(8 * Len(h)) :
        /\ \A k \in 0..(n - 1) : Bit(h, k) = 0
        /\ n = 8 * Len(h) \/ Bit(h, n) = 1

\* v is a candidate with no disallowed digit that satisfies the success
\* predicate
Qualifies(v) ==
    /\ ~HasDisallowedDigit(v)
    /\ LeadingZeroBits(sha1(base_string \o EncodingOf(v))) >= nb_zeros * 4

\* lines 54-130 and 132-133: one iteration of 'main_loop, or the end of the
\* loop, from the local state st of a thread; found is what a load of
\* is_found returns.  access tells what the iteration does to is_found.
\* The fields of st after ret are history: they record what the iterations
\* did and no iteration reads them.
MainLoopIteration(st, found) ==
    LET nb_original_bytes == Len(base_string)
        i == st.i + 1
        enc == EncodeLoop(st.bytes, st.value, 0, nb_original_bytes)
        meaningful_bytes == MeaningfulBytes(enc.bytes, nb_original_bytes, enc.current_offset)
        hash == sha1(meaningful_bytes)
        count_leading_zeros == CountLeadingZeros(hash)
        accepted == SuccessPredicate(count_leading_zeros)
        suffix == SubSeq(meaningful_bytes, nb_original_bytes + 1,
                         nb_original_bytes + enc.current_offset)
        \* the thread after the inner loop
        encoded == [st EXCEPT !.i = i, !.bytes = enc.bytes]
        zero_bits == LeadingZeroBits(hash)
        \* the thread after line 83, with the history of the evaluation
        hashed == [encoded EXCEPT
                     !.hashed_disallowed = @ \/ HasDisallowedDigit(st.value),
                     !.decode_wrong = @ \/ Decode(suffix) # st.value \/ ~Minimal(suffix),
                     !.hashed_other = @ \/ meaningful_bytes # base_string \o EncodingOf(st.value),
                     !.evaluator_wrong = @ \/ count_leading_zeros # zero_bits
                                           \/ accepted # (zero_bits >= 4 * nb_zeros),
                     !.hashes = @ + 1]
        \* a candidate the loop leaves behind
        missed == st.missed \/ Qualifies(st.value)
    IN IF st.value >= st.upper_limit
       THEN [st |-> [st EXCEPT !.pc = "exhausted"], access |-> "none"]
       ELSE IF enc.status = "skip"
       THEN [st |-> [encoded EXCEPT !.value = NextValue(@), !.missed = missed],
             access |-> "none"]
       ELSE IF enc.status = "panic"
       THEN [st |-> [encoded EXCEPT !.pc = "panicked"], access |-> "none"]
       ELSE IF accepted
       THEN [st |-> [hashed EXCEPT !.pc = "succeeded", !.ret = Some(suffix)],
             access |-> "store"]
       ELSE IF (i - 1) % poll_every = 0
       THEN IF found
            THEN [st |-> [hashed EXCEPT !.pc = "cancelled"], access |-> "load"]
            ELSE [st |-> [hashed EXCEPT !.value = NextValue(@), !.missed = missed],
                  access |-> "load"]
       ELSE [st |-> [hashed EXCEPT !.value = NextValue(@), !.missed = missed],
             access |-> "none"]

\* The iterations that do not touch is_found involve the thread alone, so
\* they are run in one go: Advance runs one of them, and stops (blocked) in
\* front of an iteration that stores or loads is_found.
Advance(r) ==
    IF r.blocked \/ r.st.pc # "running" THEN r
    ELSE LET it == MainLoopIteration(r.st, FALSE)
         IN IF it.access = "none" THEN [st |-> it.st, blocked |-> FALSE]
            ELSE [st |-> r.st, blocked |-> TRUE]

RECURSIVE RunLocal(_, _)
RunLocal(r, n) ==
    IF n <= 0 \/ r.blocked \/ r.st.pc # "running" THEN r
    ELSE IF n = 1 THEN Advance(r)
    ELSE LET half == RunLocal(r, n \div 2)
         IN RunLocal(half, n - (n \div 2))

\* the local state in front of the thread's next access to is_found, or
\* its final state when it ends without one
FastForward(st) ==
    RunLocal([st |-> st, blocked |-> FALSE], st.upper_limit - st.value + 1).st

\* The local states in front of each access to is_found of a thread that
\* is never cancelled (a load that returns true only makes the thread
\* return), and its final state when it ends without an access: the states
\* of the thread do not depend on the other threads otherwise, so Spawn
\* computes them once.
RECURSIVE SoloRun(_)
SoloRun(st) ==
    LET ff == FastForward(st)
        it == MainLoopIteration(ff, FALSE)
    IN IF ff.pc = "running" /\ it.st.pc = "running"
       THEN <<ff>> \o SoloRun(it.st)
       ELSE <<ff>>

WorkerRun_StoreOnEveryAccess(t) ==
    /\ t \in DOMAIN workers
    /\ workers[t].st.pc = "running"
    /\ LET ff == Head(workers[t].ahead)
           it == IF ff.pc = "running" THEN MainLoopIteration(ff, is_found)
                 ELSE [st |-> ff, access |-> "none"]
       IN /\ workers' = [workers EXCEPT ![t] =
                           [st |-> it.st,
                            ahead |-> Tail(@.ahead),
                            stores |-> @.stores + (IF it.access # "none" THEN 1 ELSE 0),
                            late_hashes |-> @.late_hashes +
                                (IF is_found THEN it.st.hashes - @.st.hashes ELSE 0)]]
          /\ is_found' = (is_found \/ it.access # "none")
    /\ UNCHANGED <<args, pc_main, max_padding, max_value, spawned, joined, output, result>>

\* lines 54-133: the iterations of thread t up to and including the next
\* one that stores or loads is_found (lines 95-96 and 125-128), or up to
\* the end of its loop.  stores counts the stores of the thread and
\* late_hashes the digests it computed in steps that found is_found set.
WorkerRun(t) ==
    /\ t \in DOMAIN workers
    /\ workers[t].st.pc = "running"
    /\ LET ff == Head(workers[t].ahead)
           it == IF ff.pc = "running" THEN MainLoopIteration(ff, is_found)
                 ELSE [st |-> ff, access |-> "none"]
       IN /\ workers' = [workers EXCEPT ![t] =
                           [st |-> it.st,
                            ahead |-> Tail(@.ahead),
                            stores |-> @.stores + (IF it.access = "store" THEN 1 ELSE 0),
                            late_hashes |-> @.late_hashes +
                                (IF is_found THEN it.st.hashes - @.st.hashes ELSE 0)]]
          /\ is_found' = (is_found \/ it.access = "store")
    /\ UNCHANGED <<args, pc_main, max_padding, max_value, spawned, joined, output, result>>

\* ---------------------------------------------------------- coordinator
Compute_FlagSet ==
    /\ pc_main = "start"
    /\ ~(overflow_checks /\ (Pow16(nb_zeros).overflow \/ MaxValueOf(nb_zeros).overflow))
    /\ max_padding' = MaxPaddingOf(nb_zeros)
    /\ max_value' = U128ToNat(MaxValueOf(nb_zeros).val)
    /\ is_found' = TRUE
    /\ pc_main' = "running"
    /\ UNCHANGED <<args, workers, spawned, joined, output, result>>

\* lines 153-158, when neither pow overflows or the build wraps
Compute ==
    /\ pc_main = "start"
    /\ ~(overflow_checks /\ (Pow16(nb_zeros).overflow \/ MaxValueOf(nb_zeros).overflow))
    /\ max_padding' = MaxPaddingOf(nb_zeros)
    /\ max_value' = U128ToNat(MaxValueOf(nb_zeros).val)
    /\ is_found' = FALSE
    /\ pc_main' = "running"
    /\ UNCHANGED <<args, workers, spawned, joined, output, result>>

\* lines 153-154, when a pow overflows in a build with overflow checks
ComputePanic ==
    /\ pc_main = "start"
    /\ overflow_checks /\ (Pow16(nb_zeros).overflow \/ MaxValueOf(nb_zeros).overflow)
    /\ pc_main' = "panicked"
    /\ UNCHANGED <<args, max_padding, max_value, is_found, workers, spawned, joined,
                   output, result>>

\* lines 167-174: the range of thread nb_thread
NbElementThread == max_value \div nb_threads
LowerLimit(nb_thread) == nb_thread * NbElementThread
UpperLimit(nb_thread) ==
    IF nb_thread # nb_threads THEN (nb_thread + 1) * NbElementThread ELSE max_value

\* lines 42-44 and 53: the local state of a thread before its first iteration
InitialWorker(nb_thread) ==
    [pc |-> "running",
     lower_limit |-> LowerLimit(nb_thread),
     upper_limit |-> UpperLimit(nb_thread),
     value |-> LowerLimit(nb_thread),
     i |-> 0,
     bytes |-> base_string \o [k \in 1..max_padding |-> 0],
     ret |-> None,
     hashed_disallowed |-> FALSE,
     decode_wrong |-> FALSE,
     hashed_other |-> FALSE,
     evaluator_wrong |-> FALSE,
     missed |-> FALSE,
     hashes |-> 0]

\* lines 161-188: the spawning loop.  It touches nothing the threads
\* touch, so the whole loop is one step.
Spawn ==
    /\ pc_main = "running"
    /\ spawned = 0
    /\ nb_threads > 0
    /\ workers' = [t \in 0..(nb_threads - 1) |->
                     [st |-> InitialWorker(t), ahead |-> SoloRun(InitialWorker(t)),
                      stores |-> 0, late_hashes |-> 0]]
    /\ spawned' = nb_threads
    /\ UNCHANGED <<args, pc_main, max_padding, max_value, is_found, joined, output, result>>

Terminated(st) == st.pc \in {"succeeded", "cancelled", "exhausted"}

Join_FirstWins ==
    /\ pc_main = "running"
    /\ spawned = nb_threads
    /\ joined < nb_threads
    /\ Terminated(workers[joined].st)
    /\ output' = IF output.some THEN output ELSE workers[joined].st.ret
    /\ joined' = joined + 1
    /\ UNCHANGED <<args, pc_main, max_padding, max_value, is_found, workers, spawned, result>>

\* lines 193-197: join of the next handle, whose thread returned
Join ==
    /\ pc_main = "running"
    /\ spawned = nb_threads
    /\ joined < nb_threads
    /\ Terminated(workers[joined].st)
    /\ output' = IF workers[joined].st.ret.some THEN workers[joined].st.ret ELSE output
    /\ joined' = joined + 1
    /\ UNCHANGED <<args, pc_main, max_padding, max_value, is_found, workers, spawned, result>>

JoinPanic_Dropped ==
    /\ pc_main = "running"
    /\ spawned = nb_threads
    /\ joined < nb_threads
    /\ workers[joined].st.pc = "panicked"
    /\ joined' = joined + 1
    /\ UNCHANGED <<args, pc_main, max_padding, max_value, is_found, workers, spawned,
                   output, result>>

\* line 194: join of a handle whose thread panicked; unwrap panics
JoinPanic ==
    /\ pc_main = "running"
    /\ spawned = nb_threads
    /\ joined < nb_threads
    /\ workers[joined].st.pc = "panicked"
    /\ pc_main' = "panicked"
    /\ UNCHANGED <<args, max_padding, max_value, is_found, workers, spawned, joined,
                   output, result>>

Return_Early ==
    /\ pc_main = "running"
    /\ spawned = nb_threads
    /\ joined = nb_threads \/ output.some
    /\ result' = output
    /\ pc_main' = "returned"
    /\ UNCHANGED <<args, max_padding, max_value, is_found, workers, spawned, joined, output>>

\* line 202
Return ==
    /\ pc_main = "running"
    /\ spawned = nb_threads
    /\ joined = nb_threads
    /\ result' = output
    /\ pc_main' = "returned"
    /\ UNCHANGED <<args, max_padding, max_value, is_found, workers, spawned, joined, output>>

\* the build profiles that behave differently: overflow checks matter only
\* when a pow of lines 153-154 overflows
BuildProfiles(d) ==
    IF Pow16(d).overflow \/ MaxValueOf(d).overflow THEN BOOLEAN ELSE {TRUE}

\* the state before the call, with the polling interval interval
InitWith(interval) ==
    /\ base_string \in Bases
    /\ nb_zeros \in Difficulties
    /\ nb_threads \in 0..MaxThreads
    /\ overflow_checks \in BuildProfiles(nb_zeros)
    /\ sha1_table \in [{base_string \o s : s \in MarkedSuffixes} -> Digests]
    /\ \A s \in MarkedSuffixes : sha1_table[base_string \o s] \in DigestsFor(s)
    /\ poll_every = interval
    /\ pc_main = "start"
    /\ max_padding = 0
    /\ max_value = 0
    /\ is_found = FALSE
    /\ workers = <<>>
    /\ spawned = 0
    /\ joined = 0
    /\ output = None
    /\ result = None

Init == InitWith(check_every)

\* the same program with a polling interval within the ranges of the model
ScaledInit == InitWith(ScaledCheckEvery)

Next ==
    \/ Compute
    \/ ComputePanic
    \/ Spawn
    \/ \E t \in 0..(MaxThreads - 1) : WorkerRun(t)
    \/ Join
    \/ JoinPanic
    \/ Return

Spec == Init /\ [][Next]_vars
ScaledSpec == ScaledInit /\ [][Next]_vars

\* every thread the operating system runs, and the coordinator, keep
\* taking steps
FairSpec ==
    /\ Spec
    /\ WF_vars(Compute \/ ComputePanic \/ Spawn \/ Join \/ JoinPanic \/ Return)
    /\ \A t \in 0..(MaxThreads - 1) : WF_vars(WorkerRun(t))

\* ------------------------------------------------------------ properties
NatToU128(n) ==
    [k \in 1..NbLimbs |->
        IF k = 1 THEN n % LimbBase ELSE IF k = 2 THEN n \div LimbBase ELSE 0]

Returned == pc_main = "returned"
WorkerIds == DOMAIN workers
Successful == {t \in WorkerIds : workers[t].st.ret.some}
Last(S) == CHOOSE t \in S : \A u \in S : u <= t
AllowedByte(b) == b \in 0..127 /\ b \notin DisallowedBytes

\* C1: a suffix returned by generate_valid_string gives a digest of
\* (base ++ suffix) with at least difficulty * 4 leading zero bits
C1_ReturnedSuffixIsValid ==
    (Returned /\ result.some) =>
        LeadingZeroBits(sha1(base_string \o result.val)) >= nb_zeros * 4

C1_Witness ==
    /\ Returned /\ result.some
    /\ nb_zeros = 1 /\ nb_threads >= 2
    /\ LeadingZeroBits(sha1(base_string \o result.val)) = 4

\* C2: generate_valid_string returns absent only when no integer of
\* [0, max_value) without disallowed digit satisfies the success predicate
C2_AbsentOnlyWhenNoSolution ==
    (Returned /\ nb_threads >= 1 /\ ~result.some) =>
        \A v \in 0..(max_value - 1) : ~Qualifies(v)

\* C3: the ranges of the workers are pairwise disjoint, their union is
\* [0, max_value) and the last upper_limit is max_value
C3_RangesPartitionSpace ==
    (nb_threads >= 1 /\ spawned = nb_threads) =>
        /\ \A v \in 0..(max_value - 1) :
              Cardinality({t \in WorkerIds :
                  workers[t].st.lower_limit <= v /\ v < workers[t].st.upper_limit}) = 1
        /\ \A t \in WorkerIds :
              workers[t].st.lower_limit >= 0 /\ workers[t].st.upper_limit <= max_value
        /\ workers[nb_threads - 1].st.upper_limit = max_value

\* C4: with difficulty 0 and at least one worker no worker fails and the
\* call returns a present result
C4_ZeroDifficultyIsPresent ==
    (nb_zeros = 0 /\ nb_threads >= 1) =>
        /\ pc_main # "panicked"
        /\ \A t \in WorkerIds : workers[t].st.pc # "panicked"
        /\ Returned => result.some

\* C5: with at least one worker, every run ends with every worker
\* Succeeded, Cancelled or Exhausted and generate_valid_string returned:
\* a state in which no thread can take a step is such a state
C5_EveryWorkerTerminatesAndCallReturns ==
    (/\ nb_threads >= 1
     /\ pc_main \in {"returned", "panicked"}
     /\ \A t \in WorkerIds : workers[t].st.pc # "running") =>
        (Returned /\ \A t \in WorkerIds : Terminated(workers[t].st))

\* C6: a call with worker_count = 0 is rejected; it does not return as a
\* search that found nothing does
C6_ZeroWorkersRejected ==
    nb_threads = 0 => ~Returned

\* C7: when a worker has failed abnormally the call fails: it returns
\* neither a present nor an absent result
C7_WorkerFailureFailsCall ==
    (\E t \in WorkerIds : workers[t].st.pc = "panicked") => ~Returned

C7_Witness ==
    /\ pc_main = "panicked"
    /\ \E t \in WorkerIds : workers[t].st.pc = "panicked"

\* C8: for a difficulty d in 0..31 the computed max_value is at least 16^d
\* and max_padding(d) <= max_padding(d + 1)
C8_MaxValueCoversDifficulty ==
    (nb_zeros <= 31 /\ pc_main # "start") =>
        /\ pc_main # "panicked" \/ spawned > 0
        /\ GeqU128(NatToU128(max_value), Pow16(nb_zeros).val)
        /\ MaxPaddingOf(nb_zeros) <= MaxPaddingOf(nb_zeros + 1)

\* C9: the result is absent when no worker returned a suffix, and
\* otherwise the suffix of the successful worker with the highest index
C9_LastSuccessfulWorkerWins ==
    Returned =>
        result = IF Successful = {} THEN None ELSE workers[Last(Successful)].st.ret

C9_Witness ==
    /\ Returned
    /\ \E t, u \in Successful : t < u /\ workers[t].st.ret # workers[u].st.ret

\* C10: no candidate with a digit in {9, 10, 13, 32} is hashed, and every
\* byte of a returned suffix is in [0, 128) and none of 9, 10, 13, 32
C10_DisallowedNeverHashedNorReturned ==
    /\ \A t \in WorkerIds :
          /\ ~workers[t].st.hashed_disallowed
          /\ workers[t].st.ret.some =>
                \A k \in 1..Len(workers[t].st.ret.val) : AllowedByte(workers[t].st.ret.val[k])
    /\ result.some => \A k \in 1..Len(result.val) : AllowedByte(result.val[k])

\* a worker went past the candidate 160 = <<32, 1>>, whose digest qualifies
C10_Witness ==
    /\ nb_zeros = 1
    /\ LeadingZeroBits(sha1(base_string \o <<32, 1>>)) >= 4
    /\ \E t \in WorkerIds :
          /\ workers[t].st.lower_limit = 0
          /\ workers[t].st.value > 160
          /\ workers[t].st.pc \in {"succeeded", "exhausted"}

\* C11: the bytes written for an integer decode back to it, with no digit
\* more than it needs (one zero byte for 0), and the suffixes returned for
\* different integers differ
C11_EncodingRoundTrips ==
    /\ \A t \in WorkerIds :
          /\ ~workers[t].st.decode_wrong
          /\ workers[t].st.ret.some =>
                /\ Decode(workers[t].st.ret.val) = workers[t].st.value
                /\ Minimal(workers[t].st.ret.val)
    /\ \A t, u \in Successful :
          workers[t].st.value # workers[u].st.value =>
              workers[t].st.ret.val # workers[u].st.ret.val

\* a worker returned the two digits of its value
C11_Witness ==
    \E t \in Successful :
        /\ Len(workers[t].st.ret.val) = 2
        /\ workers[t].st.value >= 128
        /\ Decode(workers[t].st.ret.val) = workers[t].st.value

\* C12: a worker evaluates at most K - 1 hashes after another worker has
\* stored the flag, K the polling interval
C12_BoundedStaleness ==
    \A t \in WorkerIds : workers[t].late_hashes <= poll_every - 1

\* C13: the flag is false before the workers start, stays true once
\* stored, is true only when some worker succeeded, and a cancelled worker
\* has read a flag stored by another worker
C13_FlagFollowsSuccess ==
    /\ spawned = 0 => ~is_found
    /\ (\E u \in WorkerIds : workers[u].stores > 0) => is_found
    /\ is_found => \E u \in WorkerIds : workers[u].st.pc = "succeeded"
    /\ \A t \in WorkerIds :
          workers[t].st.pc = "cancelled" =>
              /\ is_found
              /\ ~workers[t].st.ret.some
              /\ workers[t].st.value < workers[t].st.upper_limit
              /\ \E u \in WorkerIds : u # t /\ workers[u].stores > 0

C13_Witness ==
    \E t \in WorkerIds : workers[t].st.pc = "cancelled" /\ workers[t].stores = 0

\* C14, as stated: at most one worker stores the flag in a run
C14_AtMostOneWriter ==
    Cardinality({t \in WorkerIds : workers[t].stores > 0}) <= 1

\* C14, amended: a worker stores the flag at most once, and exactly the
\* workers that succeeded store it
C14_OneStorePerSuccessfulWorker ==
    \A t \in WorkerIds :
        /\ workers[t].stores <= 1
        /\ workers[t].stores = 1 <=> workers[t].st.pc = "succeeded"

C14_Witness ==
    \E t, u \in WorkerIds : t # u /\ workers[t].stores = 1 /\ workers[u].stores = 1

\* C15: max_padding is the smallest p with 128^p >= 16^difficulty, that
\* is ceil(4 * difficulty / 7)
C15_MaxPaddingIsSmallest ==
    (pc_main = "running" /\ nb_zeros <= 31) =>
        max_padding = CeilDiv(4 * nb_zeros, 7)

\* C16: a worker goes through its range upwards one integer at a time,
\* leaves no qualifying integer behind, returns the encoding of the
\* integer it stopped at, and is exhausted only at the end of its range
C16_AscendingAndSmallest ==
    \A t \in WorkerIds :
        LET st == workers[t].st
        IN /\ st.value = st.lower_limit + st.i
                           - (IF st.pc \in {"running", "exhausted"} THEN 0 ELSE 1)
           /\ ~st.missed
           /\ st.pc = "succeeded" =>
                 /\ st.value \in st.lower_limit..(st.upper_limit - 1)
                 /\ Qualifies(st.value)
                 /\ st.ret = Some(EncodingOf(st.value))
           /\ st.pc = "exhausted" =>
                 /\ st.value >= st.upper_limit
                 /\ st.i = IF st.upper_limit > st.lower_limit
                           THEN st.upper_limit - st.lower_limit ELSE 0

\* a worker succeeded after it went past other integers
C16_Witness ==
    \E t \in Successful :
        /\ workers[t].st.value > workers[t].st.lower_limit + 1
        /\ workers[t].st.i = workers[t].st.value - workers[t].st.lower_limit + 1

\* C17: no worker writes outside its buffer, the value 0 included
C17_NoWriteOutOfBounds ==
    \A t \in WorkerIds : workers[t].st.pc # "panicked"

\* C18: generate_valid_string has returned only when every launched
\* worker is in a terminal state
C18_ReturnsAfterEveryWorker ==
    Returned =>
        /\ spawned = nb_threads
        /\ \A t \in WorkerIds : workers[t].st.pc # "running"

\* the first worker succeeded and a later one went on to the end
C18_Witness ==
    /\ Returned
    /\ nb_threads >= 2
    /\ workers[0].st.pc = "succeeded"
    /\ \E t \in WorkerIds : workers[t].st.pc = "exhausted"

\* C19: the message hashed is the base bytes followed by the encoding of
\* the current value and nothing of an earlier candidate, and the suffix
\* returned is that encoding
C19_HashedMessageIsCurrentCandidate ==
    \A t \in WorkerIds :
        /\ ~workers[t].st.hashed_other
        /\ workers[t].st.ret.some =>
              workers[t].st.ret.val = EncodingOf(workers[t].st.value)

\* a worker that reused its buffer from 0 up to a candidate of two bytes
C19_Witness ==
    \E t \in Successful :
        /\ workers[t].st.lower_limit = 0
        /\ base_string # <<>>
        /\ Len(workers[t].st.ret.val) = 2
        /\ workers[t].st.bytes = base_string \o workers[t].st.ret.val

\* C20: the count of the evaluator is the number of leading zero bits of
\* the digest, and a candidate is accepted exactly when that number is at
\* least difficulty * 4
C20_CountIsLeadingZeroBits ==
    \A t \in WorkerIds :
        /\ ~workers[t].st.evaluator_wrong
        /\ workers[t].st.pc = "succeeded" =>
              LeadingZeroBits(sha1(base_string \o workers[t].st.ret.val)) >= nb_zeros * 4

\* a digest with a zero byte and then a byte with leading zeros was counted
C20_Witness ==
    \E t \in Successful :
        /\ sha1(base_string \o workers[t].st.ret.val) = ZeroByteThenOne
        /\ CountLeadingZeros(ZeroByteThenOne) = 15

====
